---------------------------- MODULE Spec2Model ----------------------------
(***************************************************************************)
(* stcat (src/src/main.rs): decoding of stlog message ids.                 *)
(*                                                                         *)
(* run() reads the 32-bit symbol table of an ELF file, finds the section   *)
(* that holds the stlog symbols (the section of `_sstlog_trace`), collects *)
(* the ten range symbols `_s/_estlog_<level>` and the message symbols      *)
(* (info == MAGIC) of that section, gives every message the level whose    *)
(* range [start, end) holds its address, and then decodes stdin one byte   *)
(* at a time against the resulting table.                                  *)
(*                                                                         *)
(* The model starts where run() has the symbol table entries (line 95).    *)
(* An entry is [name, value, shndx, info]; `name` is what                  *)
(* entry.get_name(&elf) returns, a Result.  stdout and stderr are the      *)
(* sequences of lines handed to writeln!; the Result of each writeln! is   *)
(* chosen by the environment.                                              *)
(***************************************************************************)
EXTENDS Integers, Sequences, FiniteSets, TLC

VARIABLES
    entries,      \* the symbol table entries (line 95), in table order
    occurrences,  \* args.occurrences_of("debug") (line 76)
    input,        \* what stdin.bytes() yields, item by item (line 202)
    pc,           \* position of run(): start, scan, require, build, decode,
                  \* process, done (Ok(())), failed (Err), panicked
    anchor,       \* Option<(strace, shndx)> (line 96)
    opt,          \* the nine `let mut x = None` (lines 102-110)
    messages,     \* unclassified messages (line 113)
    b,            \* the ten range bounds once unwrapped (lines 147-155)
    table,        \* id -> message (line 158)
    err,          \* the message of the error run() returned
    pos,          \* number of items taken from stdin.bytes()
    byte,         \* the byte of the current iteration (line 203)
    wres,         \* Result of the last writeln! (lines 207, 211)
    stdout,       \* lines written to stdout
    stderr        \* lines written to stderr

vars == <<entries, occurrences, input, pc, anchor, opt, messages, b, table,
          err, pos, byte, wres, stdout, stderr>>

---------------------------------------------------------------------------
(* Bounds of the model.                                                    *)

\* Addresses and input bytes range over 0..MaxAddr.
MaxAddr == 3
\* Longest input stream.
MaxInput == 2
\* Most symbols added to a complete symbol table.
MaxExtra == 2
\* Most `-d` flags on the command line.
MaxFlags == 2

Addr == 0..MaxAddr

---------------------------------------------------------------------------
(* Option and Result values.                                               *)

None == <<>>
Some(v) == <<v>>
unwrap(o) == o[1]

Ok(v) == [ok |-> TRUE, v |-> v]
Err(v) == [ok |-> FALSE, v |-> v]

---------------------------------------------------------------------------
(* Level (lines 28-47).                                                    *)

Levels == {"Trace", "Debug", "Info", "Warn", "Error"}

\* #[derive(Ord)]: variants compare by declaration order.
LevelOrd(l) ==
    CASE l = "Trace" -> 0
      [] l = "Debug" -> 1
      [] l = "Info"  -> 2
      [] l = "Warn"  -> 3
      [] l = "Error" -> 4

\* impl fmt::Display for Level.
Display(l) ==
    CASE l = "Trace" -> "TRACE"
      [] l = "Debug" -> "DEBUG"
      [] l = "Info"  -> "INFO"
      [] l = "Warn"  -> "WARN"
      [] l = "Error" -> "ERROR"

\* match args.occurrences_of("debug") (lines 76-80).
requested_level_of(n) ==
    IF n = 0 THEN "Info" ELSE IF n = 1 THEN "Debug" ELSE "Trace"

requested_level == requested_level_of(occurrences)

---------------------------------------------------------------------------
(* Symbol table entries.                                                   *)

MAGIC == 1

get_name(e) == e.name

Sym(n, v, sh, i) == [name |-> n, value |-> v, shndx |-> sh, info |-> i]

\* The symbols run() requires, in the order in which it requires them.
SentinelOrder ==
    <<"_sstlog_trace", "_estlog_trace", "_sstlog_debug", "_estlog_debug",
      "_sstlog_info", "_estlog_info", "_sstlog_warn", "_estlog_warn",
      "_sstlog_error", "_estlog_error">>

\* The nine symbols the scan of lines 115-145 looks for.
ScanNames == {SentinelOrder[i] : i \in 2..10}

NotFound(n) == n \o " symbol not found"

IOError == "I/O error"

---------------------------------------------------------------------------
(* Lines 96-100: the first entry named _sstlog_trace.                      *)

find_strace(es) ==
    LET I == {i \in 1..Len(es) : get_name(es[i]) = Ok("_sstlog_trace")}
    IN  IF I = {} THEN None
        ELSE LET i == CHOOSE k \in I : \A j \in I : k <= j
             IN  Some([value |-> es[i].value, shndx |-> es[i].shndx])

FindSentinel ==
    /\ pc = "start"
    /\ anchor' = find_strace(entries)
    /\ IF anchor' = None
       THEN pc' = "failed" /\ err' = NotFound("_sstlog_trace")
       ELSE pc' = "scan" /\ err' = err
    /\ UNCHANGED <<entries, occurrences, input, opt, messages, b, table,
                   pos, byte, wres, stdout, stderr>>

---------------------------------------------------------------------------
(* Lines 115-145: one pass over the entries of the anchor's section.       *)

\* Mutant of is_message: the section is not compared.
is_message_any_section(e, sh) == e.info = MAGIC

\* Lines 116 and 120.
is_message(e, sh) == e.shndx = sh /\ e.info = MAGIC

\* Lines 116, 120 and the comparison of one branch of lines 125-143.
is_sentinel(e, sh, n) ==
    /\ e.shndx = sh
    /\ e.info # MAGIC
    /\ get_name(e) = Ok(n)

\* The body of the loop; acc is [messages, opt].
ScanEntry(acc, e, sh) ==
    IF is_message(e, sh)
    THEN [acc EXCEPT !.messages = Append(@, e)]
    ELSE IF \E n \in ScanNames : is_sentinel(e, sh, n)
         THEN LET n == CHOOSE m \in ScanNames : is_sentinel(e, sh, m)
              IN  [acc EXCEPT !.opt[n] = Some(e.value)]
         ELSE acc

RECURSIVE ScanLoop(_, _, _)
ScanLoop(es, acc, sh) ==
    IF es = <<>> THEN acc
    ELSE ScanLoop(Tail(es), ScanEntry(acc, Head(es), sh), sh)

NoOpt == [n \in ScanNames |-> None]

ScanEntries ==
    /\ pc = "scan"
    /\ LET r == ScanLoop(entries, [messages |-> <<>>, opt |-> NoOpt],
                         unwrap(anchor).shndx)
       IN  messages' = r.messages /\ opt' = r.opt
    /\ pc' = "require"
    /\ UNCHANGED <<entries, occurrences, input, anchor, b, table, err,
                   pos, byte, wres, stdout, stderr>>

---------------------------------------------------------------------------
(* Lines 147-155: every range symbol must have been found.                 *)

\* Mutant of first_missing: the last missing symbol is reported.
last_missing(o) ==
    LET I == {i \in 2..10 : o[SentinelOrder[i]] = None}
    IN  IF I = {} THEN None
        ELSE Some(SentinelOrder[CHOOSE k \in I : \A j \in I : j <= k])

\* The first `ok_or(..)?` of lines 147-155 that returns.
first_missing(o) ==
    LET I == {i \in 2..10 : o[SentinelOrder[i]] = None}
    IN  IF I = {} THEN None
        ELSE Some(SentinelOrder[CHOOSE k \in I : \A j \in I : k <= j])

Require ==
    /\ pc = "require"
    /\ LET m == first_missing(opt)
       IN  IF m # None
           THEN pc' = "failed" /\ err' = NotFound(unwrap(m)) /\ b' = b
           ELSE /\ pc' = "build"
                /\ err' = err
                /\ b' = Some([n \in {SentinelOrder[i] : i \in 1..10} |->
                               IF n = "_sstlog_trace"
                               THEN unwrap(anchor).value
                               ELSE unwrap(opt[n])])
    /\ UNCHANGED <<entries, occurrences, input, anchor, opt, messages,
                   table, pos, byte, wres, stdout, stderr>>

---------------------------------------------------------------------------
(* Lines 160-184: the table, one message after the other.                  *)

\* Mutant of level_of: the end of a range belongs to it.
level_of_closed(value, bb) ==
    IF value >= bb["_sstlog_trace"] /\ value <= bb["_estlog_trace"]
    THEN Some("Trace")
    ELSE IF value >= bb["_sstlog_debug"] /\ value <= bb["_estlog_debug"]
    THEN Some("Debug")
    ELSE IF value >= bb["_sstlog_info"] /\ value <= bb["_estlog_info"]
    THEN Some("Info")
    ELSE IF value >= bb["_sstlog_warn"] /\ value <= bb["_estlog_warn"]
    THEN Some("Warn")
    ELSE IF value >= bb["_sstlog_error"] /\ value <= bb["_estlog_error"]
    THEN Some("Error")
    ELSE None

\* Lines 163-175; None is the unreachable!() of line 174.
level_of(value, bb) ==
    IF value >= bb["_sstlog_trace"] /\ value < bb["_estlog_trace"]
    THEN Some("Trace")
    ELSE IF value >= bb["_sstlog_debug"] /\ value < bb["_estlog_debug"]
    THEN Some("Debug")
    ELSE IF value >= bb["_sstlog_info"] /\ value < bb["_estlog_info"]
    THEN Some("Info")
    ELSE IF value >= bb["_sstlog_warn"] /\ value < bb["_estlog_warn"]
    THEN Some("Warn")
    ELSE IF value >= bb["_sstlog_error"] /\ value < bb["_estlog_error"]
    THEN Some("Error")
    ELSE None

\* Mutant of insert: an address already in the table keeps its message.
insert_keep_first(t, k, m) ==
    [a \in DOMAIN t \cup {k} |-> IF a \in DOMAIN t THEN t[a] ELSE m]

\* HashMap::insert (line 177).
insert(t, k, m) ==
    [a \in DOMAIN t \cup {k} |-> IF a = k THEN m ELSE t[a]]

\* Mutant of message_name: a message whose name cannot be read is named "".
message_name_lossy(e) == IF get_name(e).ok THEN get_name(e) ELSE Ok("")

\* entry.get_name(&elf) of line 181, before its `?`.
message_name(e) == get_name(e)

EmptyTable == [a \in {} |-> [level |-> "Trace", string |-> ""]]

\* The loop of lines 160-184: the table, or the error or panic that ends it.
RECURSIVE BuildLoop(_, _, _)
BuildLoop(msgs, t, bb) ==
    IF msgs = <<>> THEN [pc |-> "decode", table |-> t, err |-> ""]
    ELSE LET entry == Head(msgs)
             value == entry.value
             level == level_of(value, bb)
         IN  IF level = None
             THEN [pc |-> "panicked", table |-> EmptyTable, err |-> ""]
             ELSE LET name == message_name(entry)
                  IN  IF ~name.ok
                      THEN [pc |-> "failed", table |-> EmptyTable,
                            err |-> name.v]
                      ELSE BuildLoop(Tail(msgs),
                                     insert(t, value,
                                            [level |-> unwrap(level),
                                             string |-> name.v]),
                                     bb)

BuildTable ==
    /\ pc = "build"
    /\ LET r == BuildLoop(messages, EmptyTable, unwrap(b))
       IN  pc' = r.pc /\ table' = r.table /\ err' = r.err
    /\ UNCHANGED <<entries, occurrences, input, anchor, opt, messages, b,
                   pos, byte, wres, stdout, stderr>>

---------------------------------------------------------------------------
(* Lines 202-215: the decoding loop.                                       *)

\* Mutant of read_step: a failed read is skipped and the loop goes on.
read_step_skip(item) ==
    IF item.ok THEN [pc |-> "process", err |-> ""]
    ELSE [pc |-> "decode", err |-> ""]

\* Line 203: `byte.chain_err(|| "I/O error")?`.
read_step(item) ==
    IF item.ok THEN [pc |-> "process", err |-> ""]
    ELSE [pc |-> "failed", err |-> IOError]

\* One item of stdin.bytes(): the end of the stream, an error, or a byte.
ReadByte ==
    /\ pc = "decode"
    /\ IF pos = Len(input)
       THEN pc' = "done" /\ UNCHANGED <<pos, byte, err>>
       ELSE LET item == input[pos + 1]
                r == read_step(item)
            IN  /\ pos' = pos + 1
                /\ pc' = r.pc
                /\ err' = IF r.pc = "failed" THEN r.err ELSE err
                /\ byte' = IF item.ok THEN item.v ELSE byte
    /\ UNCHANGED <<entries, occurrences, input, anchor, opt, messages, b,
                   table, wres, stdout, stderr>>

\* Mutant of passes: the comparison is reversed.
passes_reversed(level, requested) == LevelOrd(level) <= LevelOrd(requested)

\* Line 206: message.level >= requested_level.
passes(level, requested) == LevelOrd(level) >= LevelOrd(requested)

\* Mutant of route: an unknown id is reported on stdout.
route_unknown_to_stdout(t, requested, id) ==
    IF id \in DOMAIN t
    THEN IF passes(t[id].level, requested)
         THEN [chan |-> "stdout",
               line |-> Display(t[id].level) \o " " \o t[id].string]
         ELSE [chan |-> "none", line |-> ""]
    ELSE [chan |-> "stdout",
          line |-> "unknown message id " \o ToString(id)]

\* Lines 205-214: the line one byte produces and the stream it goes to.
route(t, requested, id) ==
    IF id \in DOMAIN t
    THEN IF passes(t[id].level, requested)
         THEN [chan |-> "stdout",
               line |-> Display(t[id].level) \o " " \o t[id].string]
         ELSE [chan |-> "none", line |-> ""]
    ELSE [chan |-> "stderr",
          line |-> "unknown message id " \o ToString(id)]

\* Mutant of after_write: an unknown id ends the decoding.
after_write_strict(chan, r) ==
    IF r.ok /\ chan # "stderr" THEN [pc |-> "decode", err |-> ""]
    ELSE [pc |-> "failed", err |-> IOError]

\* `.chain_err(|| "I/O error")?` of lines 208 and 211-213.
after_write(chan, r) ==
    IF r.ok THEN [pc |-> "decode", err |-> ""]
    ELSE [pc |-> "failed", err |-> IOError]

WriteResults == {Ok(0), Err(0)}

Process ==
    /\ pc = "process"
    /\ LET o == route(table, requested_level, byte)
       IN  IF o.chan = "none"
           THEN pc' = "decode" /\ UNCHANGED <<wres, stdout, stderr, err>>
           ELSE \E r \in WriteResults :
                  LET a == after_write(o.chan, r)
                  IN  /\ wres' = r
                      /\ stdout' = IF o.chan = "stdout"
                                   THEN Append(stdout, o.line) ELSE stdout
                      /\ stderr' = IF o.chan = "stderr"
                                   THEN Append(stderr, o.line) ELSE stderr
                      /\ pc' = a.pc
                      /\ err' = IF a.pc = "failed" THEN a.err ELSE err
    /\ UNCHANGED <<entries, occurrences, input, anchor, opt, messages, b,
                   table, pos, byte>>

Next ==
    \/ FindSentinel
    \/ ScanEntries
    \/ Require
    \/ BuildTable
    \/ ReadByte
    \/ Process

---------------------------------------------------------------------------
(* Symbol tables and input streams the model is run on.                    *)

\* The ten range symbols with the values v, in section 1, not objects.
Sentinels(v) == [i \in 1..10 |-> Sym(Ok(SentinelOrder[i]), v[i], 1, 0)]

Msg(n, a) == Sym(Ok(n), a, 1, MAGIC)

\* Six cut points c[1] <= ... <= c[6] in A delimit five adjacent ranges.
Cuts(A) == {c \in [1..6 -> A] : \A i \in 1..5 : c[i] <= c[i + 1]}

\* The ranges in address order trace, debug, info, warn, error.
TraceFirst(c) ==
    <<c[1], c[2], c[2], c[3], c[3], c[4], c[4], c[5], c[5], c[6]>>

\* The ranges in address order error, warn, info, debug, trace.
ErrorFirst(c) ==
    <<c[5], c[6], c[4], c[5], c[3], c[4], c[2], c[3], c[1], c[2]>>

\* v, and v with one symbol moved: ranges that overlap or leave a gap.
Perturbed(v, A) == {v} \cup {[v EXCEPT ![i] = x] : i \in 1..10, x \in A}

LayoutVals(A) ==
    UNION {Perturbed(TraceFirst(c), A) \cup Perturbed(ErrorFirst(c), A) :
             c \in Cuts(A)}

\* Every layout over the addresses A with one message at an address of A.
LayoutTables(A) ==
    {Sentinels(v) \o <<Msg("boot", a)>> : v \in LayoutVals(A), a \in A}

\* trace [0,1), debug [1,1), info [1,2), warn [2,2), error [2,3).
BaseVals == <<0, 1, 1, 1, 1, 2, 2, 2, 2, 3>>

\* The ways a symbol of the table can be lost to the scan.
HideModes == {"removed", "other section", "object", "no name"}

Hide(e, mode) ==
    CASE mode = "other section" -> [e EXCEPT !.shndx = 2]
      [] mode = "object"        -> [e EXCEPT !.info = MAGIC]
      [] mode = "no name"       -> [e EXCEPT !.name = Err("invalid name")]
      [] OTHER                  -> e

RECURSIVE HideAll(_, _, _, _)
HideAll(es, i, D, mode) ==
    IF i > Len(es) THEN <<>>
    ELSE (IF i \notin D THEN <<es[i]>>
          ELSE IF mode = "removed" THEN <<>>
          ELSE <<Hide(es[i], mode)>>) \o HideAll(es, i + 1, D, mode)

\* The base table with some range symbols hidden, and one message.
MissingTables(modes) ==
    {HideAll(Sentinels(BaseVals), 1, D, mode) \o <<Msg("boot", 0)>> :
        D \in SUBSET (1..10), mode \in modes}

\* Symbols added to the base table: messages, symbols of another section,
\* symbols that share a name, symbols whose name cannot be read.
\* Their addresses: 0 (trace), 1 (info) and MaxAddr (in no range).
ExtraEntries(A) ==
    {Sym(n, a, sh, i) :
        n \in {Ok("tick"), Ok("_estlog_trace"), Err("invalid name")},
        a \in A, sh \in {1, 2}, i \in {0, MAGIC}}

RECURSIVE SeqsUpTo(_, _)
SeqsUpTo(S, n) ==
    IF n = 0 THEN {<<>>}
    ELSE LET P == SeqsUpTo(S, n - 1)
         IN  P \cup {Append(s, x) : s \in {t \in P : Len(t) = n - 1}, x \in S}

\* The base table, the message "boot" at 0, and up to n more symbols.
ExtraTables(A, n) ==
    {Sentinels(BaseVals) \o <<Msg("boot", 0)>> \o x :
        x \in SeqsUpTo(ExtraEntries(A), n)}

\* Tables for decoding: trace, debug, info at 0, 1, 2; info, warn, error at
\* 0, 1, 2; trace and error at 0 and 1; and a table with no message.
DecodeTables ==
    { Sentinels(<<0, 1, 1, 2, 2, 3, 3, 3, 3, 3>>)
        \o <<Msg("verbose dump", 0), Msg("tick", 1), Msg("heartbeat", 2)>>,
      Sentinels(<<0, 0, 0, 0, 0, 1, 1, 2, 2, 3>>)
        \o <<Msg("heartbeat", 0), Msg("low batt", 1), Msg("boot", 2)>>,
      Sentinels(<<0, 1, 1, 1, 1, 1, 1, 1, 1, 2>>)
        \o <<Msg("verbose dump", 0), Msg("boot", 1)>>,
      Sentinels(BaseVals) }

StreamItems == {Ok(a) : a \in Addr} \cup {Err(0)}

Inputs(n) == SeqsUpTo(StreamItems, n)

InitRun ==
    /\ pc = "start"
    /\ anchor = None
    /\ opt = NoOpt
    /\ messages = <<>>
    /\ b = None
    /\ table = EmptyTable
    /\ err = ""
    /\ pos = 0
    /\ byte = 0
    /\ wres = Ok(0)
    /\ stdout = <<>>
    /\ stderr = <<>>

\* Decoding: a few tables, every level, every short input stream.
Init ==
    /\ entries \in DecodeTables \cup {<<>>, Sentinels(BaseVals) \o <<Msg("boot", 3)>>}
    /\ occurrences \in 0..MaxFlags
    /\ input \in Inputs(MaxInput)
    /\ InitRun

\* Range layouts: every layout, one message, the input stream <<0>>.
InitLayout ==
    /\ entries \in LayoutTables(Addr) \cup {<<>>, <<Msg("boot", 0)>>}
    /\ occurrences = 0
    /\ input = <<Ok(0)>>
    /\ InitRun

\* Symbol tables: lost and added symbols, the input stream <<0>>.
InitSymtab ==
    /\ entries \in MissingTables(HideModes)
                    \cup ExtraTables({0, 1, MaxAddr}, MaxExtra)
    /\ occurrences = 0
    /\ input = <<Ok(0)>>
    /\ InitRun

Spec == Init /\ [][Next]_vars

\* run() is sequential: a step that can be taken is taken.
FairSpec == Init /\ [][Next]_vars /\ WF_vars(Next)

SpecLayout == InitLayout /\ [][Next]_vars

SpecSymtab == InitSymtab /\ [][Next]_vars

---------------------------------------------------------------------------
(* Vocabulary of the properties.                                           *)

\* Classification is over: run() is decoding, or has returned or panicked.
ClassifyDone == pc \notin {"start", "scan", "require", "build"}

\* Classification produced a table.
Built == pc \in {"decode", "process", "done"} \/ (pc = "failed" /\ err = IOError)

SentinelNames == {SentinelOrder[i] : i \in 1..10}

EntryIdx == 1..Len(entries)

\* The entries of the stlog section, the section of the anchor.
SectionIdx ==
    IF anchor = None THEN {}
    ELSE {i \in EntryIdx : entries[i].shndx = unwrap(anchor).shndx}

\* The message entries of the stlog section.
MsgIdx == {i \in SectionIdx : entries[i].info = MAGIC}

\* The message entries whose name cannot be read.
BadMsgIdx == {i \in MsgIdx : ~entries[i].name.ok}

\* No entry named S in the stlog section (for the anchor: in the table).
NoEntryNamed(S) ==
    IF S = "_sstlog_trace"
    THEN ~\E i \in EntryIdx : entries[i].name = Ok(S)
    ELSE anchor # None /\ ~\E i \in SectionIdx : entries[i].name = Ok(S)

\* S is a symbol run() can use: the anchor, or a range symbol of the stlog
\* section that is not an object.
Found(S) ==
    IF S = "_sstlog_trace"
    THEN \E i \in EntryIdx : entries[i].name = Ok(S)
    ELSE \E i \in SectionIdx :
            entries[i].info # MAGIC /\ entries[i].name = Ok(S)

AllFound == \A S \in SentinelNames : Found(S)

FirstUnfound ==
    SentinelOrder[CHOOSE k \in 1..10 :
                    /\ ~Found(SentinelOrder[k])
                    /\ \A j \in 1..(k - 1) : Found(SentinelOrder[j])]

LevelTag(l) ==
    CASE l = "Trace" -> "trace"
      [] l = "Debug" -> "debug"
      [] l = "Info"  -> "info"
      [] l = "Warn"  -> "warn"
      [] l = "Error" -> "error"

\* a lies in the range [_sstlog_<l>, _estlog_<l>).
InRange(a, l) ==
    /\ unwrap(b)["_sstlog_" \o LevelTag(l)] <= a
    /\ a < unwrap(b)["_estlog_" \o LevelTag(l)]

InSomeRange(a) == \E l \in Levels : InRange(a, l)

\* The place of a level in the order in which the ranges are tried.
TryIdx(l) ==
    CASE l = "Trace" -> 1
      [] l = "Debug" -> 2
      [] l = "Info"  -> 3
      [] l = "Warn"  -> 4
      [] l = "Error" -> 5

\* l is the first level, in that order, whose range holds a.
FirstTier(a, l) ==
    /\ InRange(a, l)
    /\ \A k \in Levels : InRange(a, k) => TryIdx(l) <= TryIdx(k)

\* The specification's tiers: four start addresses and nothing else.
SpecTier(a) ==
    LET bb == unwrap(b)
    IN  IF a < bb["_sstlog_warn"] THEN "Error"
        ELSE IF a < bb["_sstlog_info"] THEN "Warn"
        ELSE IF a < bb["_sstlog_debug"] THEN "Info"
        ELSE IF a < bb["_sstlog_trace"] THEN "Debug"
        ELSE "Trace"

MonotoneStarts ==
    LET bb == unwrap(b)
    IN  /\ bb["_sstlog_warn"] <= bb["_sstlog_info"]
        /\ bb["_sstlog_info"] <= bb["_sstlog_debug"]
        /\ bb["_sstlog_debug"] <= bb["_sstlog_trace"]

\* The specification's verbosity order: Error < Warning < Info < Debug < Trace.
Verbosity(l) ==
    CASE l = "Error" -> 0
      [] l = "Warn"  -> 1
      [] l = "Info"  -> 2
      [] l = "Debug" -> 3
      [] l = "Trace" -> 4

\* Input byte i was read and has an entry in the table.
Resolves(i) == input[i].ok /\ input[i].v \in DOMAIN table

LineOf(m) == Display(m.level) \o " " \o m.string

\* The lines the first n input items put on stdout, in input order.
RECURSIVE ExpectedOut(_)
ExpectedOut(n) ==
    IF n = 0 THEN <<>>
    ELSE ExpectedOut(n - 1) \o
         (IF /\ Resolves(n)
             /\ Verbosity(table[input[n].v].level) <= Verbosity(requested_level)
          THEN <<LineOf(table[input[n].v])>>
          ELSE <<>>)

\* The diagnostics the first n input items put on stderr, in input order.
RECURSIVE ExpectedErr(_)
ExpectedErr(n) ==
    IF n = 0 THEN <<>>
    ELSE ExpectedErr(n - 1) \o
         (IF input[n].ok /\ input[n].v \notin DOMAIN table
          THEN <<"unknown message id " \o ToString(input[n].v)>>
          ELSE <<>>)

AllReadsOk == \A i \in 1..Len(input) : input[i].ok

\* The last item taken from stdin was an error.
ReadFailed == pos >= 1 /\ ~input[pos].ok

\* The number of input items whose line or diagnostic has been written.
Handled ==
    IF pc = "process" \/ ReadFailed THEN pos - 1 ELSE pos

---------------------------------------------------------------------------
(* C1.                                                                     *)

\* C1 as stated: when the four start addresses are ordered warn <= info <=
\* debug <= trace, every message address that gets a tier gets the one the
\* four starts give it: Error below the warn start, Warning from there to
\* the info start, Info to the debug start, Debug to the trace start, and
\* Trace from the trace start on.
C1_Partition ==
    (Built /\ MonotoneStarts) =>
        \A a \in DOMAIN table : table[a].level = SpecTier(a)

\* C1 amended: every message address gets the first level, in the order
\* Trace, Debug, Info, Warn, Error, whose range [_sstlog_<level>,
\* _estlog_<level>) holds it, so no address has two tiers; classification
\* stops without a table exactly when a message address lies in no range.
C1_FirstRange ==
    /\ Built =>
         /\ \A i \in MsgIdx : entries[i].value \in DOMAIN table
         /\ \A a \in DOMAIN table : FirstTier(a, table[a].level)
    /\ pc = "panicked" =>
         \E i \in MsgIdx : ~InSomeRange(entries[i].value)
    /\ (ClassifyDone /\ b # None /\ BadMsgIdx = {}
          /\ \E i \in MsgIdx : ~InSomeRange(entries[i].value)) =>
         pc = "panicked"

\* A message whose address lies in two ranges has been classified.
C1_Witness ==
    /\ Built
    /\ \E a \in DOMAIN table :
         Cardinality({l \in Levels : InRange(a, l)}) >= 2

---------------------------------------------------------------------------
(* C5.                                                                     *)

\* C5 as stated: classification never ends in a panic; a message address
\* in no range ends it with an error value.
C5_NeverPanics == pc # "panicked"

---------------------------------------------------------------------------
(* C4.                                                                     *)

NothingDecoded ==
    /\ table = EmptyTable
    /\ pos = 0
    /\ stdout = <<>>
    /\ stderr = <<>>

\* C4 as stated: a required symbol S with no entry in the stlog section
\* makes classification fail with the error that names S, whichever other
\* symbols are there; no table, no byte decoded.
C4_NamesExactlyS ==
    ClassifyDone =>
        \A S \in SentinelNames :
            NoEntryNamed(S) =>
                pc = "failed" /\ err = NotFound(S) /\ NothingDecoded

\* C4 amended: a required symbol S with no entry in the stlog section makes
\* classification fail with the error that names the first symbol, in the
\* order of SentinelOrder, that was not found; that is S when every symbol
\* before S was found.  No table, no byte decoded.
C4_NamesFirstMissing ==
    ClassifyDone =>
        \A S \in SentinelNames :
            NoEntryNamed(S) =>
                /\ ~Found(S)
                /\ pc = "failed"
                /\ err = NotFound(FirstUnfound)
                /\ NothingDecoded

\* _sstlog_info has no entry and the error names _estlog_trace.
C4_Witness ==
    /\ pc = "failed"
    /\ NoEntryNamed("_sstlog_info")
    /\ NoEntryNamed("_estlog_trace")
    /\ err = NotFound("_estlog_trace")

---------------------------------------------------------------------------
(* C6.                                                                     *)

\* C6: the table has an entry at a exactly when a message entry (info ==
\* MAGIC) of the anchor's section has value a, its content is the name of
\* such an entry, and every range bound is the value of a symbol of that
\* section that is not an object (the anchor: of an entry of that section).
C6_TableDomain ==
    Built =>
        /\ DOMAIN table = {entries[i].value : i \in MsgIdx}
        /\ \A a \in DOMAIN table :
             \E i \in MsgIdx :
                /\ entries[i].value = a
                /\ entries[i].name = Ok(table[a].string)
        /\ \A n \in ScanNames :
             \E i \in SectionIdx :
                /\ entries[i].info # MAGIC
                /\ entries[i].name = Ok(n)
                /\ entries[i].value = unwrap(b)[n]
        /\ \E i \in SectionIdx :
                /\ entries[i].name = Ok("_sstlog_trace")
                /\ entries[i].value = unwrap(b)["_sstlog_trace"]

\* A table was built from entries that include an object of another section
\* and a range symbol of another section, neither of which is in it.
C6_Witness ==
    /\ Built
    /\ DOMAIN table # {}
    /\ \E i \in EntryIdx \ SectionIdx :
          /\ entries[i].info = MAGIC
          /\ entries[i].value \notin DOMAIN table
    /\ \E i \in EntryIdx \ SectionIdx :
          /\ entries[i].name = Ok("_estlog_trace")
          /\ entries[i].value # unwrap(b)["_estlog_trace"]

---------------------------------------------------------------------------
(* C9.                                                                     *)

FirstBadMsg == CHOOSE i \in BadMsgIdx : \A j \in BadMsgIdx : i <= j

\* C9: a name that cannot be read never fails classification for an entry
\* outside the stlog section or for an entry that is not a message: every
\* error of classification is a missing symbol or the lookup error of a
\* message of the section.  No table is built from a message whose name
\* cannot be read: when table construction reaches it, run() returns the
\* lookup error.
C9_NameLookup ==
    /\ Built => BadMsgIdx = {}
    /\ (pc = "failed" /\ err # IOError) =>
          \/ ~AllFound /\ err = NotFound(FirstUnfound)
          \/ \E i \in BadMsgIdx : Err(err) = entries[i].name
    /\ (ClassifyDone /\ AllFound /\ BadMsgIdx # {}
          /\ \A j \in MsgIdx :
                j <= FirstBadMsg => InSomeRange(entries[j].value)) =>
          /\ pc = "failed"
          /\ Err(err) = entries[FirstBadMsg].name
          /\ NothingDecoded

\* run() returned the lookup error of a message while the table also holds
\* an entry of another section whose name cannot be read.
C9_Witness ==
    /\ pc = "failed"
    /\ BadMsgIdx # {}
    /\ Err(err) = entries[FirstBadMsg].name
    /\ \E i \in EntryIdx \ SectionIdx : ~entries[i].name.ok

---------------------------------------------------------------------------
(* C10.                                                                    *)

\* The last message entry of the section with value a.
LastAt(a) ==
    CHOOSE i \in MsgIdx :
        /\ entries[i].value = a
        /\ \A j \in MsgIdx : entries[j].value = a => j <= i

Duplicates ==
    \E i, j \in MsgIdx : i # j /\ entries[i].value = entries[j].value

\* C10: messages that share an address do not fail classification; the
\* table holds one entry for the address, with the name of the last such
\* message in symbol table order and the level of that address.
C10_LastWriteWins ==
    /\ Built =>
         \A a \in DOMAIN table :
            /\ Ok(table[a].string) = entries[LastAt(a)].name
            /\ FirstTier(a, table[a].level)
    /\ (ClassifyDone /\ Duplicates /\ AllFound /\ BadMsgIdx = {}
          /\ \A i \in MsgIdx : InSomeRange(entries[i].value)) => Built

\* A table was built from two messages of different names at one address.
C10_Witness ==
    /\ Built
    /\ \E i, j \in MsgIdx :
          /\ i < j
          /\ entries[i].value = entries[j].value
          /\ entries[i].name # entries[j].name

---------------------------------------------------------------------------
(* C3.                                                                     *)

\* C3: a byte that resolves to a message m is written to stdout as
\* "<LEVEL> <content>" exactly when m's level is no more verbose than the
\* requested level; otherwise the step writes nothing and is no error.  The
\* comparison of line 206 agrees with the verbosity order for every
\* threshold.
C3_Filter ==
    [][(pc = "process" /\ byte \in DOMAIN table) =>
          LET m == table[byte]
          IN  /\ \A t \in Levels :
                    passes(m.level, t) <=> Verbosity(m.level) <= Verbosity(t)
              /\ passes("Error", requested_level)
              /\ passes("Trace", requested_level) <=> requested_level = "Trace"
              /\ IF Verbosity(m.level) <= Verbosity(requested_level)
                 THEN /\ stdout' = Append(stdout, LineOf(m))
                      /\ stderr' = stderr
                 ELSE /\ stdout' = stdout
                      /\ stderr' = stderr
                      /\ pc' = "decode"]_vars

\* Two bytes resolved; one was written and one was filtered out.
C3_Witness ==
    /\ pc = "decode"
    /\ pos = 2
    /\ Resolves(1)
    /\ Resolves(2)
    /\ Len(stdout) = 1
    /\ stderr = <<>>

---------------------------------------------------------------------------
(* C7.                                                                     *)

\* C7: stdout holds the lines of the handled input bytes that resolve and
\* pass the filter, stderr the diagnostics of those that do not resolve,
\* both in input order; a byte puts at most one line on one of them; the
\* line of byte i is there when byte i+1 has been read.
C7_ArrivalOrder ==
    IF Built
    THEN /\ stdout = ExpectedOut(Handled)
         /\ stderr = ExpectedErr(Handled)
         /\ Len(stdout) + Len(stderr) <= Handled
         /\ pc = "process" => pos = Handled + 1
    ELSE stdout = <<>> /\ stderr = <<>>

\* Two bytes were decoded: a diagnostic first, then a line.
C7_Witness ==
    /\ pc = "done"
    /\ pos = 2
    /\ ~Resolves(1)
    /\ Len(stdout) = 1
    /\ Len(stderr) = 1

---------------------------------------------------------------------------
(* C8.                                                                     *)

\* C8: once a read has failed run() has returned the I/O error, takes no
\* further step, and stdout and stderr hold what the bytes read before the
\* failure put there.
C8_ReadFailure ==
    ReadFailed =>
        /\ pc = "failed"
        /\ err = IOError
        /\ ~ENABLED Next
        /\ stdout = ExpectedOut(pos - 1)
        /\ stderr = ExpectedErr(pos - 1)

\* The second read failed after the first byte was written to stdout.
C8_Witness ==
    /\ ReadFailed
    /\ pos = 2
    /\ Len(stdout) = 1

---------------------------------------------------------------------------
(* C2.                                                                     *)

\* C2 as stated: when every read succeeds the decoder is never in a failed
\* state, and ends only with every byte consumed.
C2_NeverAborts ==
    (Built /\ AllReadsOk) =>
        /\ pc # "failed"
        /\ pc = "done" => pos = Len(input)

\* C2 amended: decoding ends early only on a failed read or a failed write
\* (of a line or of a diagnostic); it always ends; when it ends with Ok
\* every byte was consumed and every byte without an entry put exactly one
\* diagnostic on stderr; after a diagnostic whose write succeeded the
\* decoder goes on.
C2_AbortsOnlyOnIO ==
    /\ []((Built /\ pc = "failed") => (ReadFailed \/ ~wres.ok))
    /\ [](pc = "done" =>
            /\ pos = Len(input)
            /\ AllReadsOk
            /\ stderr = ExpectedErr(Len(input)))
    /\ []((pc = "decode" /\ pos >= 1 /\ ~Resolves(pos)) =>
            /\ wres.ok
            /\ stderr = ExpectedErr(pos)
            /\ Len(stderr) >= 1)
    /\ [](pc = "decode" => <>(pc \in {"done", "failed"}))

\* An unknown id came first and the byte after it was decoded.
C2_Witness ==
    /\ pc = "done"
    /\ AllReadsOk
    /\ pos = 2
    /\ ~Resolves(1)
    /\ Resolves(2)
    /\ stderr = <<"unknown message id 3">>
    /\ Len(stdout) = 1

===========================================================================
